---- MODULE Spec2Model ----
(***************************************************************************)
(* A model of StreamChatCompletion (src/src/streaming.ts): the async       *)
(* generator that turns the chunks of a byte source carrying Server-Sent   *)
(* Events into parsed records.                                             *)
(*                                                                         *)
(* Bytes are integers 0..255.  Text is a sequence of Unicode code points.  *)
(* (The JavaScript string holds UTF-16 code units; split, trim, startsWith *)
(* of an ASCII prefix and slice(6) after that prefix act alike on both.)   *)
(***************************************************************************)
EXTENDS Integers, Sequences, FiniteSets, TLC

\* ------------------------------------------------------------------ text

NL == 10      \* '\n', the separator of buffer.split('\n')

Drop(s, k) == IF k >= Len(s) THEN << >> ELSE SubSeq(s, k + 1, Len(s))

Take(s, k) == IF k >= Len(s) THEN s ELSE SubSeq(s, 1, k)

\* A call: the arguments are evaluated once, before the body of Op, as the
\* arguments of a JavaScript call are.
Call1(Op(_), a) == CHOOSE r \in {Op(x) : x \in {a}} : TRUE

Call2(Op(_, _), a, b) == CHOOSE r \in {Op(x, y) : x \in {a}, y \in {b}} : TRUE

Call3(Op(_, _, _), a, b, c) ==
    CHOOSE r \in {Op(x, y, z) : x \in {a}, y \in {b}, z \in {c}} : TRUE

Call4(Op(_, _, _, _), a, b, c, d) ==
    CHOOSE r \in {Op(x, y, z, w) : x \in {a}, y \in {b}, z \in {c}, w \in {d}} : TRUE

\* "data: "
DataPrefix == << 100, 97, 116, 97, 58, 32 >>

\* "[DONE]"
DoneLiteral == << 91, 68, 79, 78, 69, 93 >>

\* ------------------------------------------------- TextDecoder('utf-8')

ReplacementChar == 65533    \* U+FFFD, emitted for malformed input (fatal: false)

\* How many continuation bytes the lead byte b announces (0: none, -1: the
\* byte cannot start a character).
Utf8Needed(b) ==
    IF b <= 127 THEN 0
    ELSE IF b >= 194 /\ b <= 223 THEN 1
    ELSE IF b >= 224 /\ b <= 239 THEN 2
    ELSE IF b >= 240 /\ b <= 244 THEN 3
    ELSE -1

\* The range the j-th continuation byte after lead must lie in.
Utf8ValidCont(lead, j, b) ==
    LET lo == IF j = 1 /\ lead = 224 THEN 160
              ELSE IF j = 1 /\ lead = 240 THEN 144 ELSE 128
        hi == IF j = 1 /\ lead = 237 THEN 159
              ELSE IF j = 1 /\ lead = 244 THEN 143 ELSE 191
    IN  b >= lo /\ b <= hi

\* The number of valid continuation bytes present after the lead at i, at
\* most need.
RECURSIVE Utf8Good(_, _, _, _)
Utf8Good(bytes, i, need, m) ==
    IF m < need /\ i + m + 1 <= Len(bytes)
          /\ Utf8ValidCont(bytes[i], m + 1, bytes[i + m + 1])
    THEN Utf8Good(bytes, i, need, m + 1)
    ELSE m

Utf8CodePoint(bytes, i, need) ==
    IF need = 1 THEN (bytes[i] - 192) * 64 + (bytes[i + 1] - 128)
    ELSE IF need = 2
    THEN (bytes[i] - 224) * 4096 + (bytes[i + 1] - 128) * 64 + (bytes[i + 2] - 128)
    ELSE (bytes[i] - 240) * 262144 + (bytes[i + 1] - 128) * 4096
            + (bytes[i + 2] - 128) * 64 + (bytes[i + 3] - 128)

\* Decodes the character that the lead byte at i starts (i holds no ASCII
\* byte) and what follows it.
RECURSIVE Utf8Run(_, _, _)
Utf8Char(bytes, i, out, need, m) ==
    IF need = -1 THEN Call3(Utf8Run, bytes, i + 1, Append(out, ReplacementChar))
    ELSE IF m = need
    THEN Call3(Utf8Run, bytes, i + need + 1,
               Append(out, Utf8CodePoint(bytes, i, need)))
    ELSE IF i + m = Len(bytes)
    THEN [text |-> out, tail |-> SubSeq(bytes, i, Len(bytes))]
    ELSE Call3(Utf8Run, bytes, i + m + 1, Append(out, ReplacementChar))

\* Decodes bytes from index i on.  text: the characters decoded; tail: the
\* bytes of a character that is not complete yet.  A run of ASCII bytes is
\* taken in one step.
Utf8Run(bytes, i, out) ==
    LET high == {k \in i..Len(bytes) : bytes[k] > 127}
        j == CHOOSE k \in high : \A h \in high : k <= h
    IN  IF high = {}
        THEN [text |-> out \o SubSeq(bytes, i, Len(bytes)), tail |-> << >>]
        ELSE Utf8Char(bytes, j, out \o SubSeq(bytes, i, j - 1),
                      Utf8Needed(bytes[j]),
                      Utf8Good(bytes, j, Utf8Needed(bytes[j]), 0))

\* decoder.decode(chunk) without { stream: true }: the decoder is flushed at
\* the end of every chunk, an incomplete character becomes U+FFFD.
DecodeFlushed(r) ==
    [text |-> IF r.tail = << >> THEN r.text ELSE Append(r.text, ReplacementChar),
     tail |-> << >>]

DecodeEachChunk(pending, chunk) ==
    Call1(DecodeFlushed, Call3(Utf8Run, pending \o chunk, 1, << >>))

\* decoder.decode(chunk, { stream: true }): pending is the decoder's held
\* incomplete character, which is decoded together with the chunk.
\* (A byte order mark at the start of the stream is left in the text: it
\* starts the first line, and trim() removes it, see IsWhiteSpace.)
DecodeStream(pending, chunk) == Call3(Utf8Run, pending \o chunk, 1, << >>)

\* ------------------------------------------------------ String methods

\* buffer.split('\n'): the pieces between the newlines, at least one.
RECURSIVE Split(_)
SplitAfter(text, first) ==
    << Take(text, first - 1) >> \o Call1(Split, Drop(text, first))

SplitAt(text, at) ==
    IF at = {} THEN << text >>
    ELSE Call2(SplitAfter, text, CHOOSE k \in at : \A j \in at : k <= j)

NewlinesOf(text) == {k \in 1..Len(text) : text[k] = NL}

Split(text) == Call2(SplitAt, text, Call1(NewlinesOf, text))

\* WhiteSpace and LineTerminator of ECMAScript, what String.prototype.trim strips.
IsWhiteSpace(c) ==
    \/ c \in {9, 10, 11, 12, 13, 32, 160, 5760, 8232, 8233, 8239, 8287, 12288, 65279}
    \/ (c >= 8192 /\ c <= 8202)

RECURSIVE TrimStart(_)
TrimStart(s) ==
    IF s # << >> /\ IsWhiteSpace(s[1]) THEN TrimStart(Tail(s)) ELSE s

RECURSIVE TrimEnd(_)
TrimEnd(s) ==
    IF s # << >> /\ IsWhiteSpace(s[Len(s)]) THEN TrimEnd(Take(s, Len(s) - 1)) ELSE s

\* line.trim()
Trim(s) == Call1(TrimEnd, Call1(TrimStart, s))

\* s.startsWith(p)
StartsWith(s, p) == Len(s) >= Len(p) /\ SubSeq(s, 1, Len(p)) = p

\* ---------------------------------------------------------- JSON.parse

\* A parsed JSON value.  t is the kind; n the value of an integer number;
\* s the characters of a string (or the literal of a number with a fraction
\* or an exponent); keys and kids the members of an object, kids the
\* elements of an array.  A token of the text has the same form: a scalar
\* value, or t = "punct" with n one of [ ] { } , :
JValue(t, n, s, keys, kids) ==
    [t |-> t, n |-> n, s |-> s, keys |-> keys, kids |-> kids]

JNull == JValue("null", 0, << >>, << >>, << >>)

JFail == [ok |-> FALSE, v |-> JNull, i |-> 0]

JOk(v, i) == [ok |-> TRUE, v |-> v, i |-> i]

IsJsonWs(c) == c \in {32, 9, 10, 13}

IsDigit(c) == c >= 48 /\ c <= 57

IsHex(c) == IsDigit(c) \/ (c >= 65 /\ c <= 70) \/ (c >= 97 /\ c <= 102)

HexVal(c) == IF IsDigit(c) THEN c - 48 ELSE IF c >= 97 THEN c - 87 ELSE c - 55

At(s, i) == IF i >= 1 /\ i <= Len(s) THEN s[i] ELSE -1

RECURSIVE SkipDigits(_, _)
SkipDigits(s, i) == IF IsDigit(At(s, i)) THEN SkipDigits(s, i + 1) ELSE i

RECURSIVE DigitsValue(_, _, _, _)
DigitsValue(s, i, j, acc) ==
    IF i >= j THEN acc ELSE DigitsValue(s, i + 1, j, acc * 10 + (s[i] - 48))

\* j if at least one digit lies in i..j-1, else -1.
SomeDigits(i, j) == IF j > i THEN j ELSE -1

\* The end of the integer part at i1: 0 | [1-9][0-9]*
NumIntEnd(s, i1) == IF At(s, i1) = 48 THEN i1 + 1 ELSE SomeDigits(i1, SkipDigits(s, i1))

\* The end of the optional fraction at i2: . [0-9]+
NumFracEnd(s, i2) ==
    IF i2 = -1 THEN -1
    ELSE IF At(s, i2) = 46 THEN SomeDigits(i2 + 1, SkipDigits(s, i2 + 1))
    ELSE i2

\* The end of the optional exponent at i3: [eE] [+-]? [0-9]+
NumExpEnd(s, i3) ==
    IF i3 = -1 THEN -1
    ELSE IF At(s, i3) \notin {69, 101} THEN i3
    ELSE IF At(s, i3 + 1) \in {43, 45}
    THEN SomeDigits(i3 + 2, SkipDigits(s, i3 + 2))
    ELSE SomeDigits(i3 + 1, SkipDigits(s, i3 + 1))

NumValue(s, i, i1, i2, i4) ==
    IF i4 = -1 THEN JFail
    ELSE IF i4 = i2
    THEN JOk(JValue("number", (IF i1 > i THEN -1 ELSE 1) * DigitsValue(s, i1, i2, 0),
                    << >>, << >>, << >>), i4)
    ELSE JOk(JValue("number", 0, SubSeq(s, i, i4 - 1), << >>, << >>), i4)

NumFrom(s, i, i1, i2) == NumValue(s, i, i1, i2, NumExpEnd(s, NumFracEnd(s, i2)))

\* number: -? (0 | [1-9][0-9]*) (. [0-9]+)? ([eE] [+-]? [0-9]+)?
ParseNumber(s, i) ==
    IF At(s, i) = 45 THEN NumFrom(s, i, i + 1, NumIntEnd(s, i + 1))
    ELSE NumFrom(s, i, i, NumIntEnd(s, i))

\* The string literal whose characters start at i (after the opening quote).
RECURSIVE ParseChars(_, _, _)
ParseChars(s, i, out) ==
    LET c == At(s, i)
        e == At(s, i + 1)
    IN  IF c = -1 \/ (c >= 0 /\ c < 32) THEN JFail
        ELSE IF c = 34 THEN JOk(JValue("string", 0, out, << >>, << >>), i + 1)
        ELSE IF c # 92 THEN ParseChars(s, i + 1, Append(out, c))
        ELSE IF e \in {34, 92, 47} THEN ParseChars(s, i + 2, Append(out, e))
        ELSE IF e \in {98, 102, 110, 114, 116}
        THEN ParseChars(s, i + 2,
                 Append(out, CASE e = 98 -> 8 [] e = 102 -> 12 [] e = 110 -> 10
                               [] e = 114 -> 13 [] OTHER -> 9))
        ELSE IF e = 117 /\ \A k \in 2..5 : IsHex(At(s, i + k))
        THEN ParseChars(s, i + 6,
                 Append(out, HexVal(s[i + 2]) * 4096 + HexVal(s[i + 3]) * 256
                               + HexVal(s[i + 4]) * 16 + HexVal(s[i + 5])))
        ELSE JFail

Literal(s, i, word) ==
    i + Len(word) - 1 <= Len(s) /\ SubSeq(s, i, i + Len(word) - 1) = word

\* The scalar token that starts at i.
ScanScalar(s, i) ==
    IF s[i] = 34 THEN ParseChars(s, i + 1, << >>)
    ELSE IF s[i] = 45 \/ IsDigit(s[i]) THEN ParseNumber(s, i)
    ELSE IF Literal(s, i, << 110, 117, 108, 108 >>) THEN JOk(JNull, i + 4)
    ELSE IF Literal(s, i, << 116, 114, 117, 101 >>)
    THEN JOk(JValue("true", 0, << >>, << >>, << >>), i + 4)
    ELSE IF Literal(s, i, << 102, 97, 108, 115, 101 >>)
    THEN JOk(JValue("false", 0, << >>, << >>, << >>), i + 5)
    ELSE JFail

\* The tokens of s from i on, after out.
RECURSIVE Tokenize(_, _, _)
TokenizeAfter(s, out, r) ==
    IF r.ok THEN Call3(Tokenize, s, r.i, Append(out, r.v))
    ELSE [ok |-> FALSE, toks |-> << >>]

Tokenize(s, i, out) ==
    IF i > Len(s) THEN [ok |-> TRUE, toks |-> out]
    ELSE IF IsJsonWs(s[i]) THEN Tokenize(s, i + 1, out)
    ELSE IF s[i] \in {91, 93, 123, 125, 44, 58}
    THEN Tokenize(s, i + 1, Append(out, JValue("punct", s[i], << >>, << >>, << >>)))
    ELSE Call3(TokenizeAfter, s, out, ScanScalar(s, i))

\* An array or object under construction; key is the member name read last.
\* The bottom of the stack is a frame "top" that receives the whole value.
JFrame(t) == [t |-> t, keys |-> << >>, kids |-> << >>, key |-> << >>]

\* A repeated member name keeps its place and takes the later value.
AddTo(f, v) ==
    IF f.t # "object" THEN [f EXCEPT !.kids = Append(@, v)]
    ELSE IF \E j \in 1..Len(f.keys) : f.keys[j] = f.key
    THEN [f EXCEPT !.kids = [j \in 1..Len(f.kids) |->
                                IF f.keys[j] = f.key THEN v ELSE f.kids[j]]]
    ELSE [f EXCEPT !.keys = Append(@, f.key), !.kids = Append(@, v)]

\* The value v is complete: it joins the innermost open array or object.
Attach(stack, v) == [stack EXCEPT ![Len(stack)] = AddTo(@, v)]

\* The innermost open array or object is complete.
Close(stack) ==
    Attach(Take(stack, Len(stack) - 1),
           JValue(stack[Len(stack)].t, 0, << >>,
                  stack[Len(stack)].keys, stack[Len(stack)].kids))

\* The grammar over the tokens.  st is what may come next: "value";
\* "valueOrEnd" (after '['); "keyOrEnd" (after '{'); "key" (after ',' in an
\* object); "colon"; "after" (a value is complete).
RECURSIVE Build(_, _, _, _)
Build(toks, i, stack, st) ==
    IF i > Len(toks)
    THEN (IF Len(stack) = 1 /\ st = "after"
          THEN [ok |-> TRUE, v |-> stack[1].kids[1]]
          ELSE [ok |-> FALSE, v |-> JNull])
    ELSE LET tk == toks[i]
             top == stack[Len(stack)].t
             opens == st \in {"value", "valueOrEnd"}
         IN  IF opens /\ tk.t # "punct"
             THEN Call4(Build, toks, i + 1, Attach(stack, tk), "after")
             ELSE IF tk.t # "punct"
             THEN (IF st \in {"key", "keyOrEnd"} /\ tk.t = "string"
                   THEN Call4(Build, toks, i + 1,
                              [stack EXCEPT ![Len(stack)].key = tk.s], "colon")
                   ELSE [ok |-> FALSE, v |-> JNull])
             ELSE IF opens /\ tk.n = 91
             THEN Call4(Build, toks, i + 1, Append(stack, JFrame("array")), "valueOrEnd")
             ELSE IF opens /\ tk.n = 123
             THEN Call4(Build, toks, i + 1, Append(stack, JFrame("object")), "keyOrEnd")
             ELSE IF \/ tk.n = 93 /\ top = "array" /\ st \in {"valueOrEnd", "after"}
                     \/ tk.n = 125 /\ top = "object" /\ st \in {"keyOrEnd", "after"}
             THEN Call4(Build, toks, i + 1, Close(stack), "after")
             ELSE IF tk.n = 58 /\ st = "colon"
             THEN Call4(Build, toks, i + 1, stack, "value")
             ELSE IF tk.n = 44 /\ st = "after" /\ top # "top"
             THEN Call4(Build, toks, i + 1, stack, IF top = "object" THEN "key" ELSE "value")
             ELSE [ok |-> FALSE, v |-> JNull]

ParseTokens(tz) ==
    IF tz.ok THEN Call4(Build, tz.toks, 1, << JFrame("top") >>, "value")
    ELSE [ok |-> FALSE, v |-> JNull]

\* JSON.parse(data): ok is false where JSON.parse throws a SyntaxError.
JSONParse(data) == Call1(ParseTokens, Call3(Tokenize, data, 1, << >>))

\* ------------------------------------------------- the loop body, per line

PrefixLen == 6     \* trimmed.slice(6)

\* try { const parsed = JSON.parse(data); yield parsed } catch { console.warn }
StepParsed(data, parsed) ==
    IF parsed.ok
    THEN [kind |-> "yield", data |-> data, value |-> parsed.v]
    ELSE [kind |-> "warn", data |-> data, value |-> JNull]

\* if (data === '[DONE]') return
StepData(data) ==
    IF data = DoneLiteral
    THEN [kind |-> "done", data |-> data, value |-> JNull]
    ELSE Call2(StepParsed, data, JSONParse(data))

\* A line without the prefix is reported like a payload that does not parse.
StepTrimmedWarningOther(trimmed) ==
    IF trimmed = << >>
    THEN [kind |-> "blank", data |-> << >>, value |-> JNull]
    ELSE IF ~StartsWith(trimmed, DataPrefix)
    THEN [kind |-> "warn", data |-> trimmed, value |-> JNull]
    ELSE Call1(StepData, Drop(trimmed, PrefixLen))

\* if (!trimmed) continue; if (trimmed.startsWith('data: ')) { data = trimmed.slice(6) ...
StepTrimmed(trimmed) ==
    IF trimmed = << >>
    THEN [kind |-> "blank", data |-> << >>, value |-> JNull]
    ELSE IF ~StartsWith(trimmed, DataPrefix)
    THEN [kind |-> "other", data |-> << >>, value |-> JNull]
    ELSE Call1(StepData, Drop(trimmed, PrefixLen))

\* The loop body without the trim: the prefix is looked for in the raw line.
LineStepUntrimmed(line) == Call1(StepTrimmed, line)

\* What the body of `for (const line of lines)` does with one line:
\*   "blank"  the trimmed line is empty (continue);
\*   "other"  it does not start with 'data: ' (nothing happens);
\*   "done"   its data is '[DONE]' (return);
\*   "yield"  JSON.parse(data) returned value (yield parsed);
\*   "warn"   JSON.parse(data) threw (console.warn).
LineStep(line) == Call1(StepTrimmed, Trim(line))

\* The for-of loop over ls, run until it suspends or ends: stop is "yield"
\* (suspended at `yield parsed`, rest the lines not yet visited), "return"
\* (the sentinel's return) or "end" (all lines visited).  warns: the data of
\* the console.warn calls made on the way; seen: the lines visited.
RECURSIVE RunLines(_, _, _)
\* Variants of RunStep that differ from the code in one point each.
\* The sentinel's `return` replaced by `continue`:
RunStepPastSentinel(ls, warns, seen, st) ==
    IF st.kind = "yield"
    THEN [stop |-> "yield", rest |-> Tail(ls), value |-> st.value,
          warns |-> warns, seen |-> seen]
    ELSE Call3(RunLines, Tail(ls),
               IF st.kind = "warn" THEN Append(warns, st.data) ELSE warns, seen)

\* An empty catch block, without the console.warn:
RunStepSilent(ls, warns, seen, st) ==
    IF st.kind = "done"
    THEN [stop |-> "return", rest |-> << >>, value |-> JNull,
          warns |-> warns, seen |-> seen]
    ELSE IF st.kind = "yield"
    THEN [stop |-> "yield", rest |-> Tail(ls), value |-> st.value,
          warns |-> warns, seen |-> seen]
    ELSE Call3(RunLines, Tail(ls), warns, seen)

\* The line after a yielded one is lost:
RunStepSkipping(ls, warns, seen, st) ==
    IF st.kind = "done"
    THEN [stop |-> "return", rest |-> << >>, value |-> JNull,
          warns |-> warns, seen |-> seen]
    ELSE IF st.kind = "yield"
    THEN [stop |-> "yield", rest |-> Drop(ls, 2), value |-> st.value,
          warns |-> warns, seen |-> seen]
    ELSE Call3(RunLines, Tail(ls),
               IF st.kind = "warn" THEN Append(warns, st.data) ELSE warns, seen)

RunStep(ls, warns, seen, st) ==
    IF st.kind = "done"
    THEN [stop |-> "return", rest |-> << >>, value |-> JNull,
          warns |-> warns, seen |-> seen]
    ELSE IF st.kind = "yield"
    THEN [stop |-> "yield", rest |-> Tail(ls), value |-> st.value,
          warns |-> warns, seen |-> seen]
    ELSE Call3(RunLines, Tail(ls),
               IF st.kind = "warn" THEN Append(warns, st.data) ELSE warns, seen)

RunLines(ls, warns, seen) ==
    IF ls = << >>
    THEN [stop |-> "end", rest |-> << >>, value |-> JNull,
          warns |-> warns, seen |-> seen]
    ELSE Call4(RunStep, ls, warns, Append(seen, Head(ls)), LineStep(Head(ls)))

\* split without the pop: the piece after the last newline counts as a line.
FramePartsNoPop(parts) == [lines |-> parts, buffer |-> << >>]

\* const lines = buffer.split('\n'); buffer = lines.pop() || ''
\* lines: the complete lines; buffer: the piece after the last newline.
FrameParts(parts) ==
    [lines |-> Take(parts, Len(parts) - 1), buffer |-> parts[Len(parts)]]

Frame(text) == Call1(FrameParts, Split(text))

\* ------------------------------------------------------------ the inputs

MaxSegs == 2       \* the byte stream holds at most this many whole segments

\* The byte streams are built from these pieces.
\* 'data: {"id":"é","choices":[]}\n', é in two bytes: a record
SegRecord == << 100, 97, 116, 97, 58, 32, 123, 34, 105, 100, 34, 58, 34, 195, 169,
                34, 44, 34, 99, 104, 111, 105, 99, 101, 115, 34, 58, 91, 93, 125, 10 >>
\* ' data: 2 \r\n' 'data: x\n' '\n': JSON that is no record, in a line with
\* white space around it; a line whose data is no JSON; an empty line
SegMixed == << 32, 100, 97, 116, 97, 58, 32, 50, 32, 13, 10,
               100, 97, 116, 97, 58, 32, 120, 10, 10 >>
\* 'data: [DONE]\n'
SegDone == << 100, 97, 116, 97, 58, 32, 91, 68, 79, 78, 69, 93, 10 >>

Segments == {SegRecord, SegMixed, SegDone}

\* What the stream may end with after its whole segments: nothing, or a
\* line without its newline: the sentinel line, or a valid data line and
\* after it the first byte of a two-byte character.
Tails ==
    { << >>,
      << 100, 97, 116, 97, 58, 32, 91, 68, 79, 78, 69, 93 >>,     \* 'data: [DONE]'
      << 100, 97, 116, 97, 58, 32, 49, 195 >> }                   \* 'data: 1', 195

RECURSIVE Flatten(_)
Flatten(ss) == IF ss = << >> THEN << >> ELSE Head(ss) \o Flatten(Tail(ss))

Streams ==
    { Flatten(segs) \o tl :
        segs \in UNION { [1..n -> Segments] : n \in 0..MaxSegs }, tl \in Tails }

\* ------------------------------------------------------------ the client

\* JavaScript values as far as the client looks at them: t is "undefined",
\* "string" (s its text), "object", "stream" (a Readable) or "buffer".
Undef == [t |-> "undefined", s |-> ""]
Str(x) == [t |-> "string", s |-> x]

\* if (v), !v, v || ...
Truthy(v) == v.t \in {"object", "stream", "buffer"} \/ (v.t = "string" /\ v.s # "")

\* No client has been constructed and no request made: the generator is
\* looked at by itself, called on some responseStream.
\*   env       process.env.WRANGLE_API_KEY
\*   built     "no", "yes" (the constructor returned), "threw"
\*   option    options.apiKey as given to the constructor
\*   apiKey    this.apiKey
\*   call      the create call: "none", "posting", "fulfilled", "rejected"
\*   streaming params.stream of the call
\*   status    the HTTP status the gateway answered with, 0 while it has not
\*   sent      the error message the gateway put into the response body
\*   thrown    the message of the Error the constructor or the call threw
NoClient ==
    [env |-> Undef, built |-> "no", option |-> Undef, apiKey |-> Undef,
     call |-> "none", streaming |-> FALSE, status |-> 0, sent |-> Undef,
     thrown |-> Undef]

\* ------------------------------------------------------------- the state

VARIABLES
    stream,          \* the bytes responseStream delivers in all (the input)
    pos,             \* how many of them it has delivered
    decoder,         \* TextDecoder: the bytes of an incomplete character
    buffer,          \* `buffer`: the text after the last newline
    lines,           \* the lines of `lines` the for-of loop has yet to visit
    gen,             \* the generator: "suspendedStart", "awaiting" (the next
                     \* chunk), "suspendedYield", "completed"
    pull,            \* the consumer's last call: "none", "pending", "value",
                     \* "done", "rejected"
    yielded,         \* the records yielded, in order
    warned,          \* the data of each console.warn call, in order
    srcPending,      \* a next() call on responseStream's iterator is outstanding
    srcReturnCalls,  \* calls of return() on it
    endedBy,         \* why the generator completed: "none", "sentinel",
                     \* "exhausted", "error", "return"
    processed,       \* the lines the loop body has visited, in order
    cutInChar,       \* some chunk has ended inside a multi-byte character
    client           \* the WrangleAI client and its chat.completions.create
                     \* call, where there is one (see NoClient)

vars == << stream, pos, decoder, buffer, lines, gen, pull, yielded, warned,
           srcPending, srcReturnCalls, endedBy, processed, cutInChar, client >>

Init ==
    /\ stream \in Streams
    /\ pos = 0
    /\ decoder = << >>
    /\ buffer = << >>
    /\ lines = << >>
    /\ gen = "suspendedStart"
    /\ pull = "none"
    /\ yielded = << >>
    /\ warned = << >>
    /\ srcPending = FALSE
    /\ srcReturnCalls = 0
    /\ endedBy = "none"
    /\ processed = << >>
    /\ cutInChar = FALSE
    /\ client = NoClient

\* Variants of Resume.  The next chunk is requested already when the last
\* record of a chunk is yielded:
ResumePrefetching(r) ==
    /\ warned' = warned \o r.warns
    /\ processed' = r.seen
    /\ lines' = r.rest
    /\ IF r.stop = "yield"
       THEN /\ gen' = "suspendedYield"
            /\ pull' = "value"
            /\ yielded' = Append(yielded, r.value)
            /\ srcPending' = (r.rest = << >>)
            /\ UNCHANGED << srcReturnCalls, endedBy >>
       ELSE IF r.stop = "return"
       THEN /\ gen' = "completed"
            /\ pull' = "done"
            /\ srcReturnCalls' = srcReturnCalls + 1
            /\ endedBy' = "sentinel"
            /\ srcPending' = FALSE
            /\ UNCHANGED yielded
       ELSE /\ gen' = "awaiting"
            /\ pull' = "pending"
            /\ srcPending' = TRUE
            /\ UNCHANGED << yielded, srcReturnCalls, endedBy >>

\* The sentinel's return leaves responseStream's iterator open:
ResumeNotClosing(r) ==
    /\ warned' = warned \o r.warns
    /\ processed' = r.seen
    /\ lines' = r.rest
    /\ IF r.stop = "yield"
       THEN /\ gen' = "suspendedYield"
            /\ pull' = "value"
            /\ yielded' = Append(yielded, r.value)
            /\ srcPending' = FALSE
            /\ UNCHANGED << srcReturnCalls, endedBy >>
       ELSE IF r.stop = "return"
       THEN /\ gen' = "completed"
            /\ pull' = "done"
            /\ endedBy' = "sentinel"
            /\ srcPending' = FALSE
            /\ UNCHANGED << yielded, srcReturnCalls >>
       ELSE /\ gen' = "awaiting"
            /\ pull' = "pending"
            /\ srcPending' = TRUE
            /\ UNCHANGED << yielded, srcReturnCalls, endedBy >>

\* The generator has run the for-of loop with outcome r: it is suspended at
\* a yield, has returned at the sentinel (the for-await closes
\* responseStream's iterator), or has visited every line and awaits the next
\* chunk.
Resume(r) ==
    /\ warned' = warned \o r.warns
    /\ processed' = r.seen
    /\ lines' = r.rest
    /\ IF r.stop = "yield"
       THEN /\ gen' = "suspendedYield"
            /\ pull' = "value"
            /\ yielded' = Append(yielded, r.value)
            /\ srcPending' = FALSE
            /\ UNCHANGED << srcReturnCalls, endedBy >>
       ELSE IF r.stop = "return"
       THEN /\ gen' = "completed"
            /\ pull' = "done"
            /\ srcReturnCalls' = srcReturnCalls + 1
            /\ endedBy' = "sentinel"
            /\ srcPending' = FALSE
            /\ UNCHANGED yielded
       ELSE /\ gen' = "awaiting"
            /\ pull' = "pending"
            /\ srcPending' = TRUE
            /\ UNCHANGED << yielded, srcReturnCalls, endedBy >>

Advance(ls) == \E r \in {RunLines(ls, << >>, processed)} : Resume(r)

\* The consumer's first next(): the body starts and awaits the first chunk.
NextStart ==
    /\ gen = "suspendedStart"
    /\ pull # "pending"
    /\ gen' = "awaiting"
    /\ pull' = "pending"
    /\ srcPending' = TRUE
    /\ UNCHANGED << client, cutInChar, stream, pos, decoder, buffer, lines, yielded, warned,
                    srcReturnCalls, endedBy, processed >>

\* next() while suspended at `yield parsed`: the loop goes on.
NextResume ==
    /\ gen = "suspendedYield"
    /\ pull # "pending"
    /\ Advance(lines)
    /\ UNCHANGED << client, cutInChar, stream, pos, decoder, buffer >>

\* next() on the completed generator starts the body again.
NextCompletedRestarting ==
    /\ gen = "completed"
    /\ pull # "pending"
    /\ gen' = "awaiting"
    /\ pull' = "pending"
    /\ srcPending' = TRUE
    /\ pos' = 0
    /\ decoder' = << >>
    /\ buffer' = << >>
    /\ lines' = << >>
    /\ UNCHANGED << client, cutInChar, stream, yielded, warned, srcReturnCalls,
                    endedBy, processed >>

\* next() on the completed generator.
NextCompleted ==
    /\ gen = "completed"
    /\ pull # "pending"
    /\ pull' = "done"
    /\ UNCHANGED << client, cutInChar, stream, pos, decoder, buffer, lines, gen, yielded, warned,
                    srcPending, srcReturnCalls, endedBy, processed >>

\* The generator takes the chunk: decoder.decode, split, pop, the for-of loop.
TakeFramed(f) ==
    /\ buffer' = f.buffer
    /\ Advance(f.lines)

\* `buffer =` in place of `buffer +=`: the pending fragment is dropped.
TakeChunkDroppingBuffer(d) ==
    /\ decoder' = d.tail
    /\ cutInChar' = (cutInChar \/ d.tail # << >>)
    /\ \E f \in {Frame(d.text)} : TakeFramed(f)

TakeChunk(d) ==
    /\ decoder' = d.tail
    /\ cutInChar' = (cutInChar \/ d.tail # << >>)
    /\ \E f \in {Frame(buffer \o d.text)} : TakeFramed(f)

\* responseStream delivers its next k bytes as one chunk.
Deliver ==
    /\ gen = "awaiting"
    /\ \E k \in 1..(Len(stream) - pos) :
          /\ pos' = pos + k
          /\ \E d \in {DecodeStream(decoder, SubSeq(stream, pos + 1, pos + k))} :
                TakeChunk(d)
    /\ UNCHANGED << stream, client >>

\* The end of responseStream is not noticed: the generator goes on waiting.
SourceEndUnnoticed ==
    /\ gen = "awaiting"
    /\ pos = Len(stream)
    /\ UNCHANGED vars

\* responseStream ends: the for-await loop and the generator end.
SourceEnd ==
    /\ gen = "awaiting"
    /\ pos = Len(stream)
    /\ gen' = "completed"
    /\ pull' = "done"
    /\ endedBy' = "exhausted"
    /\ srcPending' = FALSE
    /\ UNCHANGED << client, cutInChar, stream, pos, decoder, buffer, lines, yielded, warned,
                    srcReturnCalls, processed >>

\* The failure of responseStream is caught: the generator ends with done.
SourceFailSwallowed ==
    /\ gen = "awaiting"
    /\ gen' = "completed"
    /\ pull' = "done"
    /\ endedBy' = "error"
    /\ srcPending' = FALSE
    /\ UNCHANGED << client, cutInChar, stream, pos, decoder, buffer, lines, yielded, warned,
                    srcReturnCalls, processed >>

\* responseStream fails: its next() rejects, the generator throws.
SourceFail ==
    /\ gen = "awaiting"
    /\ gen' = "completed"
    /\ pull' = "rejected"
    /\ endedBy' = "error"
    /\ srcPending' = FALSE
    /\ UNCHANGED << client, cutInChar, stream, pos, decoder, buffer, lines, yielded, warned,
                    srcReturnCalls, processed >>

\* return() that leaves responseStream's iterator open.
ReturnAtYieldLeaking ==
    /\ gen = "suspendedYield"
    /\ pull # "pending"
    /\ gen' = "completed"
    /\ pull' = "done"
    /\ lines' = << >>
    /\ endedBy' = "return"
    /\ UNCHANGED << client, cutInChar, stream, pos, decoder, buffer, yielded, warned, srcPending,
                    srcReturnCalls, processed >>

\* The consumer's return() while suspended at `yield parsed`: both loops are
\* left, and the for-await closes responseStream's iterator.
ReturnAtYield ==
    /\ gen = "suspendedYield"
    /\ pull # "pending"
    /\ gen' = "completed"
    /\ pull' = "done"
    /\ lines' = << >>
    /\ srcReturnCalls' = srcReturnCalls + 1
    /\ endedBy' = "return"
    /\ UNCHANGED << client, cutInChar, stream, pos, decoder, buffer, yielded, warned, srcPending,
                    processed >>

\* return() before the first next(): the body never runs.
ReturnAtStart ==
    /\ gen = "suspendedStart"
    /\ pull # "pending"
    /\ gen' = "completed"
    /\ pull' = "done"
    /\ endedBy' = "return"
    /\ UNCHANGED << client, cutInChar, stream, pos, decoder, buffer, lines, yielded, warned,
                    srcPending, srcReturnCalls, processed >>

Next ==
    \/ NextStart
    \/ NextResume
    \/ NextCompleted
    \/ Deliver
    \/ SourceEnd
    \/ SourceFail
    \/ ReturnAtYield
    \/ ReturnAtStart

Spec == Init /\ [][Next]_vars

\* The runs in which the consumer keeps pulling and responseStream keeps
\* delivering: a next() that can be called is called, a chunk that is there
\* arrives, and the end of the stream is signalled.  Failure of the source
\* and return() stay possible at any time and are never forced.
FairSpec ==
    /\ Spec
    /\ WF_vars(NextStart)
    /\ WF_vars(NextResume)
    /\ WF_vars(Deliver)
    /\ WF_vars(SourceEnd)

\* ---------------------------------------------- the stream, taken whole

\* The text of bytes decoded in one piece.
RefText(bytes) == DecodeStream(<< >>, bytes).text

\* The newline-terminated lines of bytes.
RefLines(bytes) == Frame(RefText(bytes)).lines

KindOf(line) == LineStep(line).kind

\* The parsed payloads of the lines of ls that carry valid JSON data, in order.
RefRecords(ls) ==
    LET sel == SelectSeq(ls, LAMBDA l : KindOf(l) = "yield")
    IN  [i \in 1..Len(sel) |-> LineStep(sel[i]).value]

\* The payloads of the lines of ls that carry malformed data, in order.
RefWarns(ls) ==
    LET sel == SelectSeq(ls, LAMBDA l : KindOf(l) = "warn")
    IN  [i \in 1..Len(sel) |-> LineStep(sel[i]).data]

IsPrefix(a, b) == Len(a) <= Len(b) /\ a = Take(b, Len(a))

\* The generator run to its end over the lines ls of one chunk by a consumer
\* that pulls until done.
RECURSIVE Drain(_, _, _)
DrainStep(recs, r) ==
    IF r.stop = "yield" THEN Drain(r.rest, Append(recs, r.value), r.warns)
    ELSE [records |-> recs, warns |-> r.warns,
          end |-> IF r.stop = "return" THEN "sentinel" ELSE "exhausted"]

Drain(ls, recs, warns) == DrainStep(recs, RunLines(ls, warns, << >>))

\* What the consumer gets when bytes arrive as one single chunk.
OneShot(bytes) == Drain(Frame(DecodeStream(<< >>, bytes).text).lines, << >>, << >>)

\* The consumer pulled to the end and the source did not fail.
RanToEnd == endedBy \in {"sentinel", "exhausted"}

\* Some line visited by the loop was the sentinel line.
SentinelProcessed == \E i \in 1..Len(processed) : KindOf(processed[i]) = "done"

\* ----------------------------------------------------------------- claims

\* C1: chunk-boundary invariance.  However the bytes of the stream were cut
\* into chunks, a run that the consumer pulls to its end yields the records,
\* reports the warnings and ends the way the run over the same bytes
\* delivered as one single chunk does.
C1_ChunkBoundaryInvariance ==
    RanToEnd =>
        /\ yielded = OneShot(stream).records
        /\ warned = OneShot(stream).warns
        /\ endedBy = OneShot(stream).end

\* A run to the end in which a chunk ended between the two bytes of the é of
\* the record, which was yielded with its é, before a line with white space
\* and a malformed line.
C1_Witness ==
    /\ stream = SegRecord \o SegMixed
    /\ endedBy = "exhausted"
    /\ cutInChar
    /\ Len(yielded) = 2
    /\ yielded[1].kids[1].s = << 233 >>
    /\ Len(warned) = 1

\* C2: sentinel termination.  Once the loop has visited a 'data: [DONE]'
\* line, that line is the last one visited, the generator is completed with
\* done and no error, the records are those of the valid data lines before
\* the sentinel, no chunk is requested, and from then on nothing changes
\* what was yielded, warned, visited or delivered.
C2_SentinelTermination ==
    /\ [](SentinelProcessed =>
            /\ KindOf(processed[Len(processed)]) = "done"
            /\ \A i \in 1..(Len(processed) - 1) : KindOf(processed[i]) # "done"
            /\ IsPrefix(processed, RefLines(stream))
            /\ yielded = RefRecords(Take(processed, Len(processed) - 1))
            /\ warned = RefWarns(Take(processed, Len(processed) - 1))
            /\ gen = "completed"
            /\ endedBy = "sentinel"
            /\ pull = "done"
            /\ ~srcPending)
    /\ [][SentinelProcessed =>
            UNCHANGED << yielded, warned, processed, pos, srcPending >>]_vars

\* The sentinel ended the run with a valid data line behind it in the same
\* chunk, never visited, and bytes of the source never delivered.
C2_Witness ==
    /\ SentinelProcessed
    /\ Len(RefLines(Take(stream, pos))) > Len(processed)
    /\ KindOf(RefLines(Take(stream, pos))[Len(processed) + 1]) = "yield"
    /\ yielded = << >>
    /\ pos < Len(stream)

\* C3: parse-failure isolation.  Every visited line with a malformed payload
\* gave exactly one warning and no record, every visited line with a valid
\* payload gave its record; a run that ends by exhaustion has visited every
\* complete line of the stream, one that ends at the sentinel every line up
\* to it; the consumer sees an error only when the byte source failed.
C3_ParseFailureIsolation ==
    /\ warned = RefWarns(processed)
    /\ yielded = RefRecords(processed)
    /\ IsPrefix(processed, RefLines(stream))
    /\ (endedBy = "exhausted" => processed = RefLines(stream))
    /\ (endedBy = "sentinel" => SentinelProcessed)
    /\ (pull = "rejected" => endedBy = "error")

\* A malformed line between two valid ones: the first record, one warning,
\* the second record, then the end without error.
C3_Witness ==
    /\ stream = SegMixed \o SegRecord
    /\ endedBy = "exhausted"
    /\ pull = "done"
    /\ warned = << << 120 >> >>
    /\ Len(yielded) = 2

\* C4: transport failure.  When the byte source fails, the pending pull
\* rejects and no warning is made of it; all records of the lines completed
\* by the chunks delivered before have been yielded by then, in order; after
\* the error nothing more is yielded or reported.
C4_TransportFailure ==
    /\ [](endedBy = "error" =>
            /\ gen = "completed"
            /\ processed = RefLines(Take(stream, pos))
            /\ yielded = RefRecords(processed)
            /\ warned = RefWarns(processed))
    /\ [][(endedBy # "error" /\ endedBy' = "error") =>
            (pull = "pending" /\ pull' = "rejected" /\ warned' = warned)]_vars
    /\ [][endedBy = "error" =>
            UNCHANGED << yielded, warned, processed, pos, srcPending >>]_vars

\* The source failed after a record was yielded and before the rest of the
\* stream arrived.
C4_Witness ==
    /\ endedBy = "error"
    /\ pull = "rejected"
    /\ Len(yielded) = 1
    /\ pos < Len(stream)

\* The consumer has called return() after receiving a record.
Cancelled == endedBy = "return" /\ yielded # << >>

\* C5: cancellation.  After the consumer's return() at a yielded record the
\* generator is completed with done and no error, the byte source's iterator
\* has been closed once, no chunk is requested, and nothing more is yielded,
\* reported, visited or delivered.
C5_Cancellation ==
    /\ [](Cancelled =>
            /\ gen = "completed"
            /\ pull = "done"
            /\ srcReturnCalls = 1
            /\ ~srcPending)
    /\ [][Cancelled =>
            UNCHANGED << yielded, warned, processed, pos, srcPending,
                         srcReturnCalls >>]_vars

\* Cancelled after the first record, with complete lines of the delivered
\* bytes not visited, a further record in the stream and more bytes in the
\* source.
C5_Witness ==
    /\ Cancelled
    /\ Len(yielded) = 1
    /\ warned = << >>
    /\ Len(RefLines(Take(stream, pos))) > Len(processed)
    /\ Len(RefRecords(RefLines(stream))) > 1
    /\ pos < Len(stream)

\* C6: order preservation.  The lines visited are always an initial part of
\* the lines of the stream, in their order, whatever the chunks were; what
\* has been yielded is the records of the valid data lines among them, one
\* for each, in that order; a step never changes or drops a record already
\* yielded and adds at most one, and it adds one only as the value that
\* answers a pull, for a line newly visited.
C6_OrderPreservation ==
    /\ [](/\ IsPrefix(processed, RefLines(stream))
          /\ yielded = RefRecords(processed)
          /\ IsPrefix(yielded, RefRecords(RefLines(stream))))
    /\ [][/\ IsPrefix(yielded, yielded')
          /\ Len(yielded') <= Len(yielded) + 1
          /\ (yielded' # yielded =>
                 /\ pull' = "value"
                 /\ yielded'[Len(yielded')] = RefRecords(processed')[Len(yielded')]
                 /\ Len(processed') > Len(processed))]_vars

\* Two different records were yielded one per pull, the first from a line
\* that reached the generator in two chunks, and the chunk that completed it
\* held further lines, of which some are still to be visited.
C6_Witness ==
    /\ gen = "suspendedYield"
    /\ cutInChar
    /\ Len(yielded) = 2
    /\ yielded[1].t = "object"
    /\ yielded[2].t = "number"
    /\ lines # << >>

\* "id" and "choices", the members every ChatCompletionChunk has
IdKey == << 105, 100 >>
ChoicesKey == << 99, 104, 111, 105, 99, 101, 115 >>

HasMember(v, key) == \E j \in 1..Len(v.keys) : v.keys[j] = key

\* v is an object with the members id and choices.
HasRecordShape(v) == v.t = "object" /\ HasMember(v, IdKey) /\ HasMember(v, ChoicesKey)

\* The visited lines whose data is no JSON or JSON of another shape.
ShapeFailures ==
    { i \in 1..Len(processed) :
        \/ KindOf(processed[i]) = "warn"
        \/ KindOf(processed[i]) = "yield"
              /\ ~HasRecordShape(LineStep(processed[i]).value) }

\* C7: shape failures are isolated like syntax failures.  Every value
\* yielded has the shape of a record, and there is one warning for every
\* visited data line whose payload is no JSON or JSON without that shape.
C7_ShapeFailuresIsolated ==
    /\ \A i \in 1..Len(yielded) : HasRecordShape(yielded[i])
    /\ Len(warned) = Cardinality(ShapeFailures)

NewlineCount(text) == Cardinality({k \in 1..Len(text) : text[k] = NL})

\* The lines of ls, each with its newline, as one text.
RECURSIVE JoinLines(_)
JoinLines(ls) ==
    IF ls = << >> THEN << >> ELSE Head(ls) \o << NL >> \o JoinLines(Tail(ls))

\* C8: the trailing fragment is discarded.  When the generator has ended
\* because the source ended, the lines visited are the text of the stream
\* up to its last newline; what follows that newline is still in the buffer
\* and the bytes of an incomplete last character are still in the decoder,
\* neither visited; the records and warnings are those of the visited
\* lines, and the consumer got done, no error.
C8_TrailingFragmentDiscarded ==
    endedBy = "exhausted" =>
        /\ pull = "done"
        /\ JoinLines(processed) \o buffer = RefText(stream)
        /\ NewlineCount(buffer) = 0
        /\ decoder = DecodeStream(<< >>, stream).tail
        /\ yielded = RefRecords(processed)
        /\ warned = RefWarns(processed)

\* The source ended after a record and 'data: 1' and the first byte of a
\* two-byte character, with no newline: the run ended by exhaustion having
\* yielded the record only; the valid data line is left in the buffer, the
\* byte in the decoder.
C8_Witness ==
    /\ endedBy = "exhausted"
    /\ KindOf(buffer) = "yield"
    /\ decoder # << >>
    /\ Len(yielded) = 1
    /\ warned = << >>

\* No newline-terminated line of the stream is the sentinel line.
NoSentinelLine ==
    \A i \in 1..Len(RefLines(stream)) : KindOf(RefLines(stream)[i]) # "done"

\* C9: clean close without sentinel.  If no line of the stream is the
\* sentinel, the consumer keeps pulling and the source delivers its bytes
\* and then ends, the generator completes, unless the source fails or the
\* consumer returns first; and whenever it has completed because the source
\* ended, the consumer got done and the record of every valid
\* newline-terminated data line of the stream, and no source call is
\* outstanding.
C9_CleanCloseWithoutSentinel ==
    /\ NoSentinelLine => <>(endedBy \in {"exhausted", "error", "return"})
    /\ [](endedBy = "exhausted" =>
            /\ NoSentinelLine
            /\ gen = "completed"
            /\ pull = "done"
            /\ ~srcPending
            /\ yielded = RefRecords(RefLines(stream)))

\* A stream of four lines without sentinel, two valid, one malformed and
\* one empty, has been pulled to its end.
C9_Witness ==
    /\ NoSentinelLine
    /\ endedBy = "exhausted"
    /\ pull = "done"
    /\ buffer = << >>
    /\ decoder = << >>
    /\ Len(processed) = 4
    /\ Len(yielded) = 2
    /\ Len(warned) = 1

\* What is done with a line when the text given for it is looked at from
\* its first character: "ignored", "done", "yield" or "warn".
PrefixStep(text) ==
    IF Take(text, Len(DataPrefix)) # DataPrefix THEN "ignored"
    ELSE IF Drop(text, Len(DataPrefix)) = DoneLiteral THEN "done"
    ELSE IF JSONParse(Drop(text, Len(DataPrefix))).ok THEN "yield"
    ELSE "warn"

PayloadsOf(texts, kind) ==
    LET sel == SelectSeq(texts, LAMBDA t : PrefixStep(t) = kind)
    IN  [i \in 1..Len(sel) |-> Drop(sel[i], Len(DataPrefix))]

\* The run so far is the one in which the visited lines were handled by
\* what texts gives for them: the records are the parsed payloads, the
\* warnings are for the payloads that did not parse, and the run ended at
\* the sentinel exactly when the last payload is '[DONE]'.
HandledAs(texts) ==
    /\ yielded = [i \in 1..Len(PayloadsOf(texts, "yield")) |->
                    JSONParse(PayloadsOf(texts, "yield")[i]).v]
    /\ warned = PayloadsOf(texts, "warn")
    /\ \A i \in 1..(Len(texts) - 1) : PrefixStep(texts[i]) # "done"
    /\ (endedBy = "sentinel") =
          (texts # << >> /\ PrefixStep(texts[Len(texts)]) = "done")

\* C10, as stated: data-line recognition by the line itself.  The visited
\* lines were handled by what they begin with: a line is a data line
\* exactly when the line begins with 'data: ', its payload is the rest of
\* the line, and the run ends at a line exactly when that payload is
\* '[DONE]'.
C10_AsStated == HandledAs(processed)

\* C10, amended: data-line recognition by the trimmed line.  The same with
\* each line stripped of leading and trailing white space first: a line is
\* a data line exactly when the trimmed line begins with 'data: ', and its
\* payload is the rest of the trimmed line.
C10_DataLineRecognition ==
    HandledAs([i \in 1..Len(processed) |-> Trim(processed[i])])

\* A run that ended at the sentinel after yielding the payload of a line
\* that has a space before 'data: ' and a space and a carriage return after
\* the payload.
C10_Witness ==
    /\ endedBy = "sentinel"
    /\ \E i \in 1..Len(processed) :
          /\ PrefixStep(processed[i]) = "ignored"
          /\ PrefixStep(Trim(processed[i])) = "yield"
    /\ \E i \in 1..Len(yielded) : yielded[i].t = "number" /\ yielded[i].n = 2

\* ------------------------------------- streams with lines that carry no data

\* ' \r\n' 'event: x\n' 'data:1\n' ': c\n': a line of white space, a line
\* with another field, a line with data: and no space, a comment line
SegNoise == << 32, 13, 10,
               101, 118, 101, 110, 116, 58, 32, 120, 10,
               100, 97, 116, 97, 58, 49, 10,
               58, 32, 99, 10 >>

\* The stream ends with its last newline or with ': c', a line without one.
NoiseTails == { << >>, << 58, 32, 99 >> }

NoiseStreams ==
    { Flatten(segs) \o tl :
        segs \in UNION { [1..n -> {SegNoise, SegMixed, SegDone}] : n \in 0..MaxSegs },
        tl \in NoiseTails }

NoiseInit ==
    /\ stream \in NoiseStreams
    /\ pos = 0
    /\ decoder = << >>
    /\ buffer = << >>
    /\ lines = << >>
    /\ gen = "suspendedStart"
    /\ pull = "none"
    /\ yielded = << >>
    /\ warned = << >>
    /\ srcPending = FALSE
    /\ srcReturnCalls = 0
    /\ endedBy = "none"
    /\ processed = << >>
    /\ cutInChar = FALSE
    /\ client = NoClient

\* The generator over the streams that hold lines without data.
NoiseSpec == NoiseInit /\ [][Next]_vars

\* The line is blank or, white space aside, does not begin with 'data: '.
IsIgnoredLine(l) == PrefixStep(Trim(l)) = "ignored"

\* The text without its newline-terminated lines that are blank or carry no
\* 'data: ' prefix; what follows the last newline is kept.
StripIgnored(text) ==
    JoinLines(SelectSeq(Frame(text).lines, LAMBDA l : ~IsIgnoredLine(l)))
        \o Frame(text).buffer

\* What the consumer gets from a stream whose decoded text is text.
DrainText(text) == Drain(Frame(text).lines, << >>, << >>)

\* The visited lines that are blank or carry no prefix.
IgnoredVisited == { i \in 1..Len(processed) : IsIgnoredLine(processed[i]) }

\* C11: ignored lines have no effect.  The records and the warnings are one
\* for each visited line that is not ignored, so an ignored line gives
\* neither; the consumer sees an error only when the byte source failed; and
\* a run pulled to its end yields the records, reports the warnings and ends
\* the way the stream without its ignored lines does.
C11_IgnoredLinesNoEffect ==
    /\ Len(yielded) + Len(warned) <=
          Len(processed) - Cardinality(IgnoredVisited)
    /\ yielded = RefRecords(SelectSeq(processed, LAMBDA l : ~IsIgnoredLine(l)))
    /\ warned = RefWarns(SelectSeq(processed, LAMBDA l : ~IsIgnoredLine(l)))
    /\ (pull = "rejected" => endedBy = "error")
    /\ (RanToEnd =>
          /\ yielded = DrainText(StripIgnored(RefText(stream))).records
          /\ warned = DrainText(StripIgnored(RefText(stream))).warns
          /\ endedBy = DrainText(StripIgnored(RefText(stream))).end)

\* The four kinds of ignored line, then a record, a malformed line and an
\* empty line, all visited, in a run that ended without error.
C11_Witness ==
    /\ stream = SegNoise \o SegMixed
    /\ endedBy = "exhausted"
    /\ pull = "done"
    /\ Cardinality(IgnoredVisited) = 5
    /\ Len(yielded) = 1
    /\ Len(warned) = 1

\* ------------------------------------------- two generators side by side

\* Two calls of StreamChatCompletion, each on its own responseStream.  In
\* PairSpec every variable holds one value for each call: stream[i], pos[i],
\* gen[i] and so on belong to call i, and decoder and buffer hold the
\* decoders and the buffers there are, call i using decoder[DecoderOf(i)] and
\* buffer[BufferOf(i)].  cutInChar: at some moment the chunks of both calls
\* had ended inside a character.
Instances == {1, 2}

\* One decoder and one buffer for all calls, as module-level variables
\* would be.
DecoderShared(i) == 1
BufferShared(i) == 1

\* `decoder` and `buffer` are declared in the function body: each call has
\* its own.
DecoderOf(i) == i
BufferOf(i) == i

\* 'data: "é"\n': a record; 'data: é\n' 'data: [DONE]\n': a malformed line
\* and the sentinel.  Both have a character of two bytes.
PairRecord == << 100, 97, 116, 97, 58, 32, 34, 195, 169, 34, 10 >>
PairMalformed == << 100, 97, 116, 97, 58, 32, 195, 169, 10 >> \o SegDone

PairStreams == {PairRecord, PairMalformed}

PairInit ==
    /\ stream \in [Instances -> PairStreams]
    /\ pos = [i \in Instances |-> 0]
    /\ decoder = [i \in Instances |-> << >>]
    /\ buffer = [i \in Instances |-> << >>]
    /\ lines = [i \in Instances |-> << >>]
    /\ gen = [i \in Instances |-> "suspendedStart"]
    /\ pull = [i \in Instances |-> "none"]
    /\ yielded = [i \in Instances |-> << >>]
    /\ warned = [i \in Instances |-> << >>]
    /\ srcPending = [i \in Instances |-> FALSE]
    /\ srcReturnCalls = [i \in Instances |-> 0]
    /\ endedBy = [i \in Instances |-> "none"]
    /\ processed = [i \in Instances |-> << >>]
    /\ cutInChar = FALSE
    /\ client = NoClient

\* Call i has run its for-of loop with outcome r (see Resume).
PairResume(i, r) ==
    /\ warned' = [warned EXCEPT ![i] = @ \o r.warns]
    /\ processed' = [processed EXCEPT ![i] = r.seen]
    /\ lines' = [lines EXCEPT ![i] = r.rest]
    /\ gen' = [gen EXCEPT ![i] = IF r.stop = "yield" THEN "suspendedYield"
                                 ELSE IF r.stop = "return" THEN "completed"
                                 ELSE "awaiting"]
    /\ pull' = [pull EXCEPT ![i] = IF r.stop = "yield" THEN "value"
                                   ELSE IF r.stop = "return" THEN "done"
                                   ELSE "pending"]
    /\ yielded' = [yielded EXCEPT ![i] = IF r.stop = "yield"
                                         THEN Append(@, r.value) ELSE @]
    /\ srcPending' = [srcPending EXCEPT ![i] = (r.stop = "end")]
    /\ srcReturnCalls' = [srcReturnCalls EXCEPT ![i] = IF r.stop = "return"
                                                       THEN @ + 1 ELSE @]
    /\ endedBy' = [endedBy EXCEPT ![i] = IF r.stop = "return"
                                         THEN "sentinel" ELSE @]

\* The first next() of call i's consumer.
PairNextStart(i) ==
    /\ gen[i] = "suspendedStart"
    /\ pull[i] # "pending"
    /\ gen' = [gen EXCEPT ![i] = "awaiting"]
    /\ pull' = [pull EXCEPT ![i] = "pending"]
    /\ srcPending' = [srcPending EXCEPT ![i] = TRUE]
    /\ UNCHANGED << client, cutInChar, stream, pos, decoder, buffer, lines, yielded, warned,
                    srcReturnCalls, endedBy, processed >>

\* next() while call i is suspended at `yield parsed`.
PairNextResume(i) ==
    /\ gen[i] = "suspendedYield"
    /\ pull[i] # "pending"
    /\ \E r \in {RunLines(lines[i], << >>, processed[i])} : PairResume(i, r)
    /\ UNCHANGED << client, cutInChar, stream, pos, decoder, buffer >>

\* next() on the completed generator of call i.
PairNextCompleted(i) ==
    /\ gen[i] = "completed"
    /\ pull[i] # "pending"
    /\ pull' = [pull EXCEPT ![i] = "done"]
    /\ UNCHANGED << client, cutInChar, stream, pos, decoder, buffer, lines, gen, yielded, warned,
                    srcPending, srcReturnCalls, endedBy, processed >>

\* Call i takes the decoded chunk d: buffer +=, split, pop, the for-of loop.
PairTakeChunk(i, d) ==
    /\ decoder' = [decoder EXCEPT ![DecoderOf(i)] = d.tail]
    /\ cutInChar' = (cutInChar \/ \A j \in Instances : decoder'[j] # << >>)
    /\ \E f \in {Frame(buffer[BufferOf(i)] \o d.text)} :
          /\ buffer' = [buffer EXCEPT ![BufferOf(i)] = f.buffer]
          /\ \E r \in {RunLines(f.lines, << >>, processed[i])} : PairResume(i, r)

\* The responseStream of call i delivers its next k bytes as one chunk.
PairDeliver(i) ==
    /\ gen[i] = "awaiting"
    /\ \E k \in 1..(Len(stream[i]) - pos[i]) :
          /\ pos' = [pos EXCEPT ![i] = @ + k]
          /\ \E d \in {DecodeStream(decoder[DecoderOf(i)],
                                    SubSeq(stream[i], pos[i] + 1, pos[i] + k))} :
                PairTakeChunk(i, d)
    /\ UNCHANGED << stream, client >>

\* The responseStream of call i ends.
PairSourceEnd(i) ==
    /\ gen[i] = "awaiting"
    /\ pos[i] = Len(stream[i])
    /\ gen' = [gen EXCEPT ![i] = "completed"]
    /\ pull' = [pull EXCEPT ![i] = "done"]
    /\ endedBy' = [endedBy EXCEPT ![i] = "exhausted"]
    /\ srcPending' = [srcPending EXCEPT ![i] = FALSE]
    /\ UNCHANGED << client, cutInChar, stream, pos, decoder, buffer, lines, yielded, warned,
                    srcReturnCalls, processed >>

\* The responseStream of call i fails.
PairSourceFail(i) ==
    /\ gen[i] = "awaiting"
    /\ gen' = [gen EXCEPT ![i] = "completed"]
    /\ pull' = [pull EXCEPT ![i] = "rejected"]
    /\ endedBy' = [endedBy EXCEPT ![i] = "error"]
    /\ srcPending' = [srcPending EXCEPT ![i] = FALSE]
    /\ UNCHANGED << client, cutInChar, stream, pos, decoder, buffer, lines, yielded, warned,
                    srcReturnCalls, processed >>

\* return() while call i is suspended at `yield parsed`.
PairReturnAtYield(i) ==
    /\ gen[i] = "suspendedYield"
    /\ pull[i] # "pending"
    /\ gen' = [gen EXCEPT ![i] = "completed"]
    /\ pull' = [pull EXCEPT ![i] = "done"]
    /\ lines' = [lines EXCEPT ![i] = << >>]
    /\ srcReturnCalls' = [srcReturnCalls EXCEPT ![i] = @ + 1]
    /\ endedBy' = [endedBy EXCEPT ![i] = "return"]
    /\ UNCHANGED << client, cutInChar, stream, pos, decoder, buffer, yielded, warned, srcPending,
                    processed >>

\* return() before the first next() of call i.
PairReturnAtStart(i) ==
    /\ gen[i] = "suspendedStart"
    /\ pull[i] # "pending"
    /\ gen' = [gen EXCEPT ![i] = "completed"]
    /\ pull' = [pull EXCEPT ![i] = "done"]
    /\ endedBy' = [endedBy EXCEPT ![i] = "return"]
    /\ UNCHANGED << client, cutInChar, stream, pos, decoder, buffer, lines, yielded, warned,
                    srcPending, srcReturnCalls, processed >>

\* Any step of either call: the two run interleaved in every way.
PairNext ==
    \E i \in Instances :
        \/ PairNextStart(i)
        \/ PairNextResume(i)
        \/ PairNextCompleted(i)
        \/ PairDeliver(i)
        \/ PairSourceEnd(i)
        \/ PairSourceFail(i)
        \/ PairReturnAtYield(i)
        \/ PairReturnAtStart(i)

PairSpec == PairInit /\ [][PairNext]_vars

\* What call i holds and has given is what its own stream alone determines:
\* the decoder holds the undecoded end and the buffer the text after the
\* last newline of the bytes delivered to i; the lines visited are lines of
\* stream[i] and the records and warnings are theirs; a run pulled to its
\* end gives what stream[i] gives alone.
AsAlone(i) ==
    /\ decoder[i] = DecodeStream(<< >>, Take(stream[i], pos[i])).tail
    /\ buffer[i] = Frame(RefText(Take(stream[i], pos[i]))).buffer
    /\ IsPrefix(processed[i], RefLines(Take(stream[i], pos[i])))
    /\ yielded[i] = RefRecords(processed[i])
    /\ warned[i] = RefWarns(processed[i])
    /\ (pull[i] = "rejected" => endedBy[i] = "error")
    /\ (endedBy[i] \in {"sentinel", "exhausted"} =>
          /\ yielded[i] = OneShot(stream[i]).records
          /\ warned[i] = OneShot(stream[i]).warns
          /\ endedBy[i] = OneShot(stream[i]).end)

\* In this step nothing happened to call i: no chunk for it, no call of its
\* consumer, no change of its generator.
Idle(i) == pos'[i] = pos[i] /\ gen'[i] = gen[i] /\ pull'[i] = pull[i]

\* C12: stream instances are isolated.  Under every interleaving of the
\* chunks and pulls of two calls, each call's decoder, buffer, visited
\* lines, records, warnings and end are those its own stream gives alone,
\* and a step of one call changes nothing of the other.
C12_InstancesIsolated ==
    /\ [](\A i \in Instances : AsAlone(i))
    /\ [][\A i \in Instances :
            Idle(i) =>
               /\ decoder'[i] = decoder[i]
               /\ buffer'[i] = buffer[i]
               /\ lines'[i] = lines[i]
               /\ processed'[i] = processed[i]
               /\ yielded'[i] = yielded[i]
               /\ warned'[i] = warned[i]
               /\ endedBy'[i] = endedBy[i]
               /\ srcPending'[i] = srcPending[i]
               /\ srcReturnCalls'[i] = srcReturnCalls[i]]_vars

\* Both calls have run to their ends on different streams, one by
\* exhaustion with its record, one at the sentinel with its warning, after
\* a moment at which each had half a character in its decoder.
C12_Witness ==
    /\ stream[1] = PairRecord
    /\ stream[2] = PairMalformed
    /\ cutInChar
    /\ endedBy[1] = "exhausted"
    /\ endedBy[2] = "sentinel"
    /\ Len(yielded[1]) = 1
    /\ yielded[1][1].s = << 233 >>
    /\ warned[2] = << << 233 >> >>

\* --------------------------------------- the client: constructor and create

\* The members of a response body the client reads: data.error and
\* data.error.message.  A value that is no object has neither.
NoError == [t |-> "undefined", s |-> "", message |-> Undef]
Data(t, s, e) == [t |-> t, s |-> s, error |-> e]

\* The JSON bodies the gateway sends with an error status:
\*   {"error":{"message":"Budget exceeded"}}   {"error":"Invalid API key"}
\*   {"error":{"code":"x"}}                    {}
BodyMessageObject ==
    Data("object", "", [t |-> "object", s |-> "", message |-> Str("Budget exceeded")])
BodyErrorString ==
    Data("object", "", [t |-> "string", s |-> "Invalid API key", message |-> Undef])
BodyNoMessage ==
    Data("object", "", [t |-> "object", s |-> "", message |-> Undef])
BodyEmptyObject ==
    Data("object", "", NoError)

ErrorBodies == {BodyMessageObject, BodyErrorString, BodyNoMessage, BodyEmptyObject}

\* The error message the gateway supplied in body, undefined if none.
SuppliedMessage(body) ==
    IF body.error.t = "string" THEN Str(body.error.s) ELSE body.error.message

ErrorStatuses == {402, 500}

\* error.response.data: with responseType 'stream' the body arrives as a
\* Readable, whatever the status; otherwise axios has parsed the JSON.
ResponseData(body, streaming) ==
    IF streaming THEN Data("stream", "", NoError) ELSE body

\* The error axios rejects with for a response with an error status.
StatusError(status, data) ==
    [axios |-> TRUE,
     message |-> "Request failed with status code " \o ToString(status),
     hasResponse |-> TRUE, status |-> status, data |-> data]

\* The error axios rejects with when no response arrived.
NetworkError ==
    [axios |-> TRUE, message |-> "Network Error",
     hasResponse |-> FALSE, status |-> 0, data |-> Data("undefined", "", NoError)]

\* An error that is not from axios.
OtherError ==
    [axios |-> FALSE, message |-> "Converting circular structure to JSON",
     hasResponse |-> FALSE, status |-> 0, data |-> Data("undefined", "", NoError)]

\* `${v}`
TemplateText(v) ==
    IF v.t = "string" THEN v.s
    ELSE IF v.t = "undefined" THEN "undefined"
    ELSE "[object Object]"

\* data?.error?.message || data?.error || error.message
ErrorMessage(data, fallback) ==
    IF Truthy(data.error.message) THEN data.error.message
    ELSE IF Truthy([t |-> data.error.t, s |-> data.error.s])
    THEN [t |-> data.error.t, s |-> data.error.s]
    ELSE Str(fallback)

\* handleError: the message of the Error it throws.
HandleError(error) ==
    IF error.axios
    THEN "WrangleAI Error ["
            \o (IF error.hasResponse THEN ToString(error.status) ELSE "undefined")
            \o "]: "
            \o TemplateText(IF error.hasResponse /\ Truthy(error.data)
                                  /\ error.data.t # "buffer"
                            THEN ErrorMessage(error.data, error.message)
                            ELSE Str(error.message))
    ELSE error.message

\* options.apiKey: omitted, empty, or a key
ApiKeyOptions == {Undef, Str(""), Str("sk-option")}

RequiresApiKey == "The WrangleAI client requires an apiKey argument"

\* The response streams of a successful streaming request.
ClientStreams == {SegRecord \o SegDone, SegMixed}

\* A process with or without WRANGLE_API_KEY in its environment, no client
\* yet and no generator.
ClientInit ==
    /\ client \in {[NoClient EXCEPT !.env = e] : e \in {Undef, Str("sk-env")}}
    /\ stream = << >>
    /\ pos = 0
    /\ decoder = << >>
    /\ buffer = << >>
    /\ lines = << >>
    /\ gen = "none"
    /\ pull = "none"
    /\ yielded = << >>
    /\ warned = << >>
    /\ srcPending = FALSE
    /\ srcReturnCalls = 0
    /\ endedBy = "none"
    /\ processed = << >>
    /\ cutInChar = FALSE

\* new WrangleAI(options)
Construct ==
    /\ client.built = "no"
    /\ \E key \in ApiKeyOptions :
          client' = IF ~Truthy(key)
                    THEN [client EXCEPT !.built = "threw", !.option = key,
                                        !.thrown = Str(RequiresApiKey)]
                    ELSE [client EXCEPT !.built = "yes", !.option = key,
                                        !.apiKey = key]
    /\ UNCHANGED << stream, pos, decoder, buffer, lines, gen, pull, yielded, warned,
                    srcPending, srcReturnCalls, endedBy, processed, cutInChar >>

\* client.chat.completions.create(params): createChatRequest posts.
CreateCall ==
    /\ client.built = "yes"
    /\ client.call = "none"
    /\ \E st \in BOOLEAN :
          client' = [client EXCEPT !.call = "posting", !.streaming = st]
    /\ UNCHANGED << stream, pos, decoder, buffer, lines, gen, pull, yielded, warned,
                    srcPending, srcReturnCalls, endedBy, processed, cutInChar >>

\* The gateway answers 200: the call returns response.data, or with
\* params.stream the generator over response.data.
PostResolves ==
    /\ client.call = "posting"
    /\ client' = [client EXCEPT !.call = "fulfilled", !.status = 200]
    /\ IF client.streaming
       THEN gen' = "suspendedStart" /\ stream' \in ClientStreams
       ELSE UNCHANGED << gen, stream >>
    /\ UNCHANGED << pos, decoder, buffer, lines, pull, yielded, warned,
                    srcPending, srcReturnCalls, endedBy, processed, cutInChar >>

\* The post has rejected with error: the catch block, handleError throws.
Rejected(error, sent) ==
    client' = [client EXCEPT !.call = "rejected", !.status = error.status,
                             !.sent = sent, !.thrown = Str(HandleError(error))]

\* The gateway answers with an error status, or no answer arrives, or the
\* request fails before it is sent.
PostRejects ==
    /\ client.call = "posting"
    /\ \/ \E status \in ErrorStatuses, body \in ErrorBodies :
             Rejected(StatusError(status, ResponseData(body, client.streaming)),
                      SuppliedMessage(body))
       \/ Rejected(NetworkError, Undef)
       \/ Rejected(OtherError, Undef)
    /\ UNCHANGED << stream, pos, decoder, buffer, lines, gen, pull, yielded, warned,
                    srcPending, srcReturnCalls, endedBy, processed, cutInChar >>

ClientNext ==
    \/ Construct
    \/ CreateCall
    \/ PostResolves
    \/ PostRejects
    \/ Next

\* The client from its construction on, and the generator a streaming
\* request returns.
ClientSpec == ClientInit /\ [][ClientNext]_vars

\* The gateway has answered the request with an error status and a body
\* that carries an error message.
GatewayError == client.status >= 400 /\ Truthy(client.sent)

\* C13: error reporting of chat.completions.create.  When the gateway has
\* answered with an error status and an error message in the body, the
\* call has rejected with an Error whose message is
\* 'WrangleAI Error [<status>]: <message>' with the gateway's message, with
\* or without params.stream, and no generator was returned that could fail
\* later.
C13_GatewayErrorReported ==
    GatewayError =>
        /\ client.call = "rejected"
        /\ client.thrown = Str("WrangleAI Error [" \o ToString(client.status)
                                 \o "]: " \o client.sent.s)
        /\ gen = "none"

\* C14: construction with the apiKey option omitted.  When the constructor
\* has been called with apiKey undefined or empty and WRANGLE_API_KEY is
\* set, it has returned a client whose key is the value of WRANGLE_API_KEY.
C14_EnvKeyDefault ==
    (client.built # "no" /\ ~Truthy(client.option) /\ Truthy(client.env)) =>
        /\ client.built = "yes"
        /\ client.apiKey = client.env

\* ----------------------------------------------- the generator, once more

\* The step is a next() of the consumer at a yielded record.
PullAtYield == gen = "suspendedYield" /\ endedBy' # "return"

\* C15: lazy, pull-driven advance.  Before the first call of the consumer
\* nothing has been read or requested.  A chunk is requested from the
\* source only while a pull is pending, and then every line completed by
\* the chunks delivered has been visited and every record of those lines
\* yielded.  A chunk is read only while a pull is pending; a warning is made
\* only while a pull is pending or in the step that is the next pull; while
\* the generator is suspended at a yielded record no request is
\* outstanding.
C15_LazyPullDriven ==
    /\ [](/\ (pull = "none" => pos = 0 /\ ~srcPending /\ warned = << >>)
          /\ (srcPending =>
                /\ pull = "pending"
                /\ lines = << >>
                /\ processed = RefLines(Take(stream, pos))
                /\ yielded = RefRecords(RefLines(Take(stream, pos))))
          /\ (gen = "suspendedYield" => ~srcPending /\ pull = "value"))
    /\ [][/\ (pos' # pos => pull = "pending" /\ srcPending)
          /\ (warned' # warned => pull = "pending" \/ PullAtYield)
          /\ (srcPending' /\ ~srcPending => pull' = "pending")]_vars

\* The generator is suspended at the last record of the delivered chunks,
\* a warning made on the way, with bytes left in the source and no request
\* for them made.
C15_Witness ==
    /\ gen = "suspendedYield"
    /\ lines = << >>
    /\ pos < Len(stream)
    /\ ~srcPending
    /\ Len(warned) = 1
    /\ Len(yielded) = 2

\* C16: single use.  Once the generator has ended, by the sentinel, by the
\* end of the source, by its failure or by return(), it stays completed
\* with no request to the source outstanding, and every later step, which
\* is a next() of the consumer in the same or a new iteration over the
\* object, is answered done and changes nothing else: no record, no
\* warning, no line visited, nothing read, no restart.
C16_SingleUse ==
    /\ [](endedBy # "none" => gen = "completed" /\ ~srcPending)
    /\ [][gen = "completed" =>
            /\ gen' = "completed"
            /\ pull' = "done"
            /\ UNCHANGED << stream, pos, decoder, buffer, lines, yielded, warned,
                            srcPending, srcReturnCalls, endedBy, processed >>]_vars

\* The source failed after a record, the pull rejected, and the pull after
\* that was answered done, with bytes of the source never read.
C16_Witness ==
    /\ endedBy = "error"
    /\ pull = "done"
    /\ Len(yielded) = 1
    /\ pos < Len(stream)

\* The decoded text of the bytes delivered so far.
DeliveredText == RefText(Take(stream, pos))

\* frag is what follows the last newline of text: it has no newline and
\* text ends with it, and before it text is empty or ends with a newline.
IsAfterLastNewline(frag, text) ==
    /\ NewlineCount(frag) = 0
    /\ Len(frag) <= Len(text)
    /\ Drop(text, Len(text) - Len(frag)) = frag
    /\ (Len(frag) = Len(text) \/ text[Len(text) - Len(frag)] = NL)

\* C17: the pending-fragment invariant.  After every chunk the buffer
\* holds no newline and is the decoded text received so far after its last
\* newline.  So the lines visited are whole newline-terminated lines of the
\* stream, in order, none of them before its newline was delivered; and
\* while the generator runs, the lines visited and the lines still to visit
\* are together exactly the lines completed so far, each once.
C17_PendingFragment ==
    /\ IsAfterLastNewline(buffer, DeliveredText)
    /\ JoinLines(RefLines(Take(stream, pos))) \o buffer = DeliveredText
    /\ IsPrefix(processed, RefLines(Take(stream, pos)))
    /\ IsPrefix(processed, RefLines(stream))
    /\ (gen \in {"awaiting", "suspendedYield"} =>
          processed \o lines = RefLines(Take(stream, pos)))

\* A record line that arrived in pieces, one cut inside its é, was visited
\* whole, a second line after it, and the beginning of a third line waits
\* in the buffer for its newline.
C17_Witness ==
    /\ stream = SegRecord \o SegMixed
    /\ cutInChar
    /\ gen = "awaiting"
    /\ processed = << Take(RefText(SegRecord), Len(RefText(SegRecord)) - 1),
                      Take(SegMixed, 10) >>
    /\ buffer = << 100, 97 >>

\* C18: the source is released at the sentinel.  When the generator has
\* ended at a 'data: [DONE]' line, return() has been called on
\* responseStream's iterator exactly once, as it has after the consumer's
\* return() at a yielded record; when it has ended because the source
\* ended, return() has not been called on it.  The call is made in the step
\* that ends the generator, and never again.
C18_SourceReleasedOnSentinel ==
    /\ [](/\ (endedBy = "sentinel" => srcReturnCalls = 1 /\ ~srcPending)
          /\ (Cancelled => srcReturnCalls = 1)
          /\ (endedBy = "exhausted" => srcReturnCalls = 0))
    /\ [][srcReturnCalls' # srcReturnCalls =>
            /\ srcReturnCalls' = srcReturnCalls + 1
            /\ endedBy = "none"
            /\ endedBy' \in {"sentinel", "return"}
            /\ gen' = "completed"]_vars

\* The generator ended at the sentinel after a record and a warning, with
\* bytes of the source not delivered, and the source's iterator was closed.
C18_Witness ==
    /\ endedBy = "sentinel"
    /\ srcReturnCalls = 1
    /\ pos < Len(stream)
    /\ Len(yielded) = 1
    /\ warned # << >>

\* ------------------------------------------ a consumer that also throws

\* The data of the line at whose `yield parsed` the generator is suspended.
YieldedData == LineStep(processed[Len(processed)]).data

\* The yield outside the try block: the exception ends the generator, the
\* for-await closes responseStream's iterator, the call rejects.
ThrowAtYieldTerminating ==
    /\ gen = "suspendedYield"
    /\ pull # "pending"
    /\ gen' = "completed"
    /\ pull' = "rejected"
    /\ lines' = << >>
    /\ srcReturnCalls' = srcReturnCalls + 1
    /\ endedBy' = "throw"
    /\ UNCHANGED << client, cutInChar, stream, pos, decoder, buffer, yielded, warned,
                    srcPending, processed >>

\* throw(e) while suspended at `yield parsed`: e is raised at the yield,
\* inside the try block; the catch block calls console.warn, entered in
\* warned with the data of the line as for a parse failure, and the for-of
\* loop goes on with the next line.  The call is answered like a next().
ThrowAtYield ==
    /\ gen = "suspendedYield"
    /\ pull # "pending"
    /\ \E r \in {RunLines(lines, << YieldedData >>, processed)} : Resume(r)
    /\ UNCHANGED << client, cutInChar, stream, pos, decoder, buffer >>

\* throw(e) before the first next(): the body never runs, the call rejects.
ThrowAtStart ==
    /\ gen = "suspendedStart"
    /\ pull # "pending"
    /\ gen' = "completed"
    /\ pull' = "rejected"
    /\ endedBy' = "throw"
    /\ UNCHANGED << client, cutInChar, stream, pos, decoder, buffer, lines, yielded,
                    warned, srcPending, srcReturnCalls, processed >>

\* throw(e) on the completed generator: the call rejects.
ThrowCompleted ==
    /\ gen = "completed"
    /\ pull # "pending"
    /\ pull' = "rejected"
    /\ UNCHANGED << client, cutInChar, stream, pos, decoder, buffer, lines, gen,
                    yielded, warned, srcPending, srcReturnCalls, endedBy, processed >>

ThrowNext ==
    \/ Next
    \/ ThrowAtYield
    \/ ThrowAtStart
    \/ ThrowCompleted

\* The generator with a consumer that calls next(), return() and throw().
ThrowSpec == Init /\ [][ThrowNext]_vars

\* ws is a possible sequence of warnings for the visited lines ls: one for
\* every line with malformed data, at most one for a line with valid data,
\* none for any other line, in the order of the lines.
RECURSIVE WarnsFit(_, _)
WarnsFit(ws, ls) ==
    IF ls = << >> THEN ws = << >>
    ELSE LET st == LineStep(Head(ls))
             one == ws # << >> /\ Head(ws) = st.data /\ WarnsFit(Tail(ws), Tail(ls))
         IN  IF st.kind = "warn" THEN one
             ELSE IF st.kind = "yield" THEN one \/ WarnsFit(ws, Tail(ls))
             ELSE WarnsFit(ws, Tail(ls))

\* The step reports a warning for the line whose record the consumer holds.
WarnsOfYielded ==
    /\ gen = "suspendedYield"
    /\ Len(warned') > Len(warned)
    /\ warned'[Len(warned) + 1] = YieldedData

\* C19: consumer-injected errors are swallowed.  An exception thrown into
\* the generator ends it only before the first next(); thrown at a yielded
\* record it is reported as a warning for that line, whose payload parsed
\* and whose record was delivered, the call is not rejected, and the loop
\* goes on with the next line: the records stay those of the valid lines
\* visited, and there is one warning for every malformed line and at most
\* one for every valid line.
C19_InjectedErrorsSwallowed ==
    /\ [](/\ yielded = RefRecords(processed)
          /\ WarnsFit(warned, processed)
          /\ IsPrefix(processed, RefLines(stream))
          /\ (endedBy = "throw" => processed = << >> /\ pos = 0))
    /\ [][WarnsOfYielded =>
            /\ pull' \in {"value", "pending", "done"}
            /\ endedBy' \in {"none", "sentinel"}
            /\ IsPrefix(yielded, yielded')
            /\ IsPrefix(processed, processed')
            /\ (lines # << >> => Len(processed') > Len(processed))]_vars

\* An exception was thrown in at the first record: there is a warning for
\* the record's line, then the second record was yielded, the malformed
\* line was reported, and the run went on to the end of the source.
C19_Witness ==
    /\ stream = SegRecord \o SegMixed
    /\ endedBy = "exhausted"
    /\ pull = "done"
    /\ Len(yielded) = 2
    /\ Len(warned) = 2
    /\ warned[1] = LineStep(RefLines(stream)[1]).data
    /\ KindOf(RefLines(stream)[1]) = "yield"

====
